---- MODULE Spec2Model ----
(***************************************************************************)
(* The k-bucket routing trie of mainline-rs (src/src/kbucket.rs): a binary *)
(* trie over identifier bits whose leaves hold at most nodes_per_kbucket   *)
(* contacts, split only along the local node identifier's own path.        *)
(***************************************************************************)
EXTENDS Integers, Sequences, FiniteSets, TLC

VARIABLES node_id, nodes_per_kbucket, nodes_to_ping, root, panicked, last, pre,
          recency, dht

vars ==
    <<node_id, nodes_per_kbucket, nodes_to_ping, root, panicked, last, pre,
      recency, dht>>

(***************************************************************************)
(* Bounds of the model.                                                    *)
(***************************************************************************)
\* Number of identifiers of SampleIds that calls may use.
NumIds == 4
\* nodes_per_kbucket ranges over 1..MaxK.
MaxK == 3
\* closest is called with Some(n), n in 0..MaxN.
MaxN == 3
\* Number of identifiers of SampleByteIds that calls may use.
NumByteIds == 3
\* Opts.max_tables and Opts.max_values range over 0..MaxCap.
MaxCap == 2
\* The rotation interval fires at most MaxTicks times in a run.
MaxTicks == 2
\* xor_distance is applied to byte sequences of length 0..MaxIdLen.
MaxIdLen == 2

(***************************************************************************)
(* Program constants.                                                      *)
(***************************************************************************)
DefaultNodesToPing == 3
\* usize is 8 bytes wide on the 64-bit targets the crate is built for.
UsizeBytes == 8

(***************************************************************************)
(* Identifiers are byte sequences; all of one table have the same length.  *)
(***************************************************************************)
SampleIds ==
    << <<0, 0>>, <<0, 128>>, <<64, 0>>, <<128, 0>>, <<192, 0>>, <<0, 1>>,
       <<1, 0>>, <<128, 1>> >>

Min(a, b) == IF a < b THEN a ELSE b
Max(a, b) == IF a < b THEN b ELSE a

Ids == { SampleIds[i] : i \in 1..Min(NumIds, Len(SampleIds)) }

\* The local node identifiers tried: bit paths that start left-left,
\* left-right and right.
LocalIds == { <<0, 0>>, <<64, 0>>, <<128, 0>> }

\* A contact is its id and a token, which stands for all it carries besides
\* the id.  The identifiers of Reannounced also come with a second token, so
\* that a stored contact and a candidate of the same identity can differ.
Tokens == {0, 1}
Reannounced == { <<0, 0>>, <<64, 0>> }
Contacts ==
    { c \in [id : Ids, token : Tokens] : c.token = 0 \/ c.id \in Reannounced }

\* One-byte identifiers, as the tests of kbucket.rs use them: tables of these
\* reach the deepest trie an identifier length allows within a few calls.
SampleByteIds == << <<0>>, <<1>>, <<128>>, <<2>>, <<64>> >>
ByteIds == { SampleByteIds[i] : i \in 1..Min(NumByteIds, Len(SampleByteIds)) }
ByteLocalIds == { <<0>>, <<1>> }
ByteContacts == [id : ByteIds, token : {0}]

\* Identifiers shorter than the two bytes of Ids.
ShortIds == { <<>>, <<0>> }
ShortContacts == [id : ShortIds, token : {0}]

None == [some |-> FALSE]
Some(x) == [some |-> TRUE, val |-> x]

(***************************************************************************)
(* Node: Leaf {contacts, dont_split} | Inner {left, right}.  Panic is the  *)
(* outcome of a call that aborts (index out of range, "should not happen").*)
(***************************************************************************)
Leaf(cs, ds) == [type |-> "Leaf", contacts |-> cs, dont_split |-> ds]
Inner(l, r) == [type |-> "Inner", left |-> l, right |-> r]
Panic == [type |-> "Panic"]
\* A call's value when it returns normally.
Ok(v) == [type |-> "Ok", val |-> v]

IsLeaf(n) == n.type = "Leaf"
IsInner(n) == n.type = "Inner"
IsPanic(n) == n.type = "Panic"

\* Node::contacts
NodeContacts(n) == IF IsLeaf(n) THEN n.contacts ELSE <<>>

\* 1 << n for the shifts within a byte.
Shl1 == [n \in 0..7 |-> 2 ^ n]

\* a ^ b on bytes, bit by bit.
RECURSIVE XorBits(_, _, _)
XorBits(a, b, bits) ==
    IF bits = 0 THEN 0
    ELSE 2 * XorBits(a \div 2, b \div 2, bits - 1) + ((a + b) % 2)

\* Mutant of ByteXor: the bytes are subtracted (wrapping) where the code has ^.
ByteXor_Sub(a, b) == (a - b + 256) % 256

ByteXor(a, b) == XorBits(a, b, 8)

\* A usize as its UsizeBytes base-256 digits, most significant first.
UsizeZero == [i \in 1..UsizeBytes |-> 0]

\* Mutant of MulAdd: saturating_mul where the code has wrapping_mul, so a
\* product past the top digit stays at the largest usize.
MulAdd_Saturating(distance, byte) ==
    IF distance[1] # 0
    THEN [i \in 1..UsizeBytes |-> 255]
    ELSE [i \in 1..UsizeBytes |-> IF i = UsizeBytes THEN byte ELSE distance[i + 1]]

\* distance.wrapping_mul(256).wrapping_add(byte), byte < 256: the digits move
\* up by one, the top one is lost, and the freed low digit takes the byte.
MulAdd(distance, byte) ==
    [i \in 1..UsizeBytes |-> IF i = UsizeBytes THEN byte ELSE distance[i + 1]]

RECURSIVE XorFold(_, _, _, _)
XorFold(first_id, second_id, i, distance) ==
    LET min == Min(Len(first_id), Len(second_id))
        max == Max(Len(first_id), Len(second_id))
    IN  IF i > max THEN distance
        ELSE IF i <= min
             THEN XorFold(first_id, second_id, i + 1,
                          MulAdd(distance, ByteXor(first_id[i], second_id[i])))
             ELSE XorFold(first_id, second_id, i + 1, MulAdd(distance, 255))

xor_distance(first_id, second_id) == XorFold(first_id, second_id, 1, UsizeZero)

\* Contact::distance
Distance(contact, other_id) == xor_distance(contact.id, other_id)

\* usize comparison on the digit form.
RECURSIVE DigitsLess(_, _, _)
DigitsLess(a, b, i) ==
    IF i > UsizeBytes THEN FALSE
    ELSE IF a[i] # b[i] THEN a[i] < b[i]
    ELSE DigitsLess(a, b, i + 1)

UsizeLess(a, b) == DigitsLess(a, b, 1)

\* should_replace is a provided method of the trait Contact, which a contact
\* type may override.  The versioned contact type stands for one that does: its
\* contacts carry a version number seq, and one gives way to a candidate of a
\* higher version only.
IsVersioned(contact) == "seq" \in DOMAIN contact
VersionedShouldReplace(incumbent, other) == other.seq > incumbent.seq

\* incumbent.should_replace(&contact): the type's own method if it has one,
\* else the default implementation of the trait, which is true.
ShouldReplace(incumbent, other) ==
    IF IsVersioned(incumbent) THEN VersionedShouldReplace(incumbent, other)
    ELSE TRUE

\* determine_node: "Left", "Right", or "Panic" for the out-of-range byte access.
determine_node(id, bit_index) ==
    LET bytes_described_by_bit_index == bit_index \div 8
        bit_index_within_byte == bit_index % 8
    IN  IF Len(id) <= bytes_described_by_bit_index /\ bit_index_within_byte # 0
        THEN "Left"
        ELSE IF bytes_described_by_bit_index >= Len(id)
        THEN "Panic"
        ELSE LET byte_under_consideration == id[bytes_described_by_bit_index + 1]
                 mask == Shl1[7 - bit_index_within_byte]
             IN  IF (byte_under_consideration \div mask) % 2 = 1
                 THEN "Right"
                 ELSE "Left"

\* index_of: the first position holding id, 0 for None.
index_of(contacts, id) ==
    LET hits == { i \in 1..Len(contacts) : contacts[i].id = id }
    IN  IF hits = {} THEN 0 ELSE CHOOSE i \in hits : \A j \in hits : i <= j

\* Vec::remove(index)
RemoveAt(s, index) == [i \in 1..(Len(s) - 1) |-> IF i < index THEN s[i] ELSE s[i + 1]]

\* Mutant of update: the more recent version is pushed and the incumbent stays.
update_NoRemove(contacts, index, contact) == Append(contacts, contact)

\* Mutant of update: the incumbent is overwritten where it stands.
update_InPlace(contacts, index, contact) ==
    [contacts EXCEPT ![index] = contact]

\* Mutant of update: a refused candidate still refreshes the incumbent, which
\* moves to the tail.
update_RefreshOnRefusal(contacts, index, contact) ==
    LET incumbent == contacts[index]
        should_replace == ShouldReplace(incumbent, contact)
        to_insert == IF should_replace THEN contact ELSE incumbent
    IN  Append(RemoveAt(contacts, index), to_insert)

update(contacts, index, contact) ==
    LET incumbent == contacts[index]
        should_replace == ShouldReplace(incumbent, contact)
    IN  IF ~should_replace /\ incumbent # contact
        THEN contacts
        ELSE LET to_insert == IF should_replace THEN contact ELSE incumbent
             IN  Append(RemoveAt(contacts, index), to_insert)

\* Mutant of Redistribute: the contacts are told apart by the bit after the
\* one the walks examine at this level.
Redistribute_NextBit(contacts, bit_index, dir) ==
    SelectSeq(contacts, LAMBDA c : determine_node(c.id, bit_index + 1) = dir)

\* Mutant of Redistribute: each contact is put at the front of its new leaf, so
\* the drained contacts end up in reverse order.
Redistribute_Reversed(contacts, bit_index, dir) ==
    LET kept == SelectSeq(contacts, LAMBDA c : determine_node(c.id, bit_index) = dir)
    IN  [i \in 1..Len(kept) |-> kept[Len(kept) + 1 - i]]

\* The contacts of a drained leaf that determine_node sends to direction dir.
RECURSIVE Redistribute(_, _, _)
Redistribute(contacts, bit_index, dir) ==
    IF contacts = <<>> THEN <<>>
    ELSE LET rest == Redistribute(Tail(contacts), bit_index, dir)
         IN  IF determine_node(Head(contacts).id, bit_index) = dir
             THEN <<Head(contacts)>> \o rest
             ELSE rest

\* Mutant of split: neither new leaf is frozen.
split_NoFreeze(local_id, contacts, bit_index) ==
    Inner(Leaf(Redistribute(contacts, bit_index, "Left"), FALSE),
          Leaf(Redistribute(contacts, bit_index, "Right"), FALSE))

\* Mutant of split: the leaf on the local identifier's side is the frozen one.
split_FlagsSwapped(local_id, contacts, bit_index) ==
    LET self_direction == determine_node(local_id, bit_index)
    IN  Inner(Leaf(Redistribute(contacts, bit_index, "Left"),
                   self_direction = "Left"),
              Leaf(Redistribute(contacts, bit_index, "Right"),
                   self_direction = "Right"))

split(local_id, contacts, bit_index) ==
    LET self_direction == determine_node(local_id, bit_index)
    IN  IF \/ \E i \in 1..Len(contacts) :
                 determine_node(contacts[i].id, bit_index) = "Panic"
           \/ self_direction = "Panic"
        THEN Panic
        ELSE Inner(Leaf(Redistribute(contacts, bit_index, "Left"),
                        self_direction = "Right"),
                   Leaf(Redistribute(contacts, bit_index, "Right"),
                        self_direction = "Left"))

(***************************************************************************)
(* Kbucket::add.  AddWalk is one pass of the body: the walk down to the    *)
(* leaf, then AddToLeaf there.  A pass yields the rebuilt node and whether *)
(* it ended in the split, after which add calls itself again from the root.*)
(***************************************************************************)
\* Mutant of AddToLeaf: after the split the contact is pushed into the child it
\* belongs to, with no second look at that child's room.
AddToLeaf_PushAfterSplit(node, contact, bit_index, local_id, k) ==
    LET contacts == node.contacts
        index == index_of(contacts, contact.id)
    IN  IF index # 0
        THEN [node |-> Leaf(update(contacts, index, contact), node.dont_split),
              again |-> FALSE]
        ELSE IF Len(contacts) < k
        THEN [node |-> Leaf(Append(contacts, contact), node.dont_split),
              again |-> FALSE]
        ELSE IF node.dont_split
        THEN [node |-> node, again |-> FALSE]
        ELSE LET s == split(local_id, contacts, bit_index)
                 t == IF determine_node(contact.id, bit_index) = "Left"
                      THEN Inner(Leaf(Append(s.left.contacts, contact),
                                      s.left.dont_split), s.right)
                      ELSE Inner(s.left, Leaf(Append(s.right.contacts, contact),
                                              s.right.dont_split))
             IN  [node |-> t, again |-> FALSE]

\* Mutant of AddToLeaf: no look for the contact's identity in the leaf, so an
\* add of a stored identity is treated like the add of a new one.
AddToLeaf_NoIndexCheck(node, contact, bit_index, local_id, k) ==
    LET contacts == node.contacts
    IN  IF Len(contacts) < k
        THEN [node |-> Leaf(Append(contacts, contact), node.dont_split),
              again |-> FALSE]
        ELSE IF node.dont_split
        THEN [node |-> node, again |-> FALSE]
        ELSE LET s == split(local_id, contacts, bit_index)
             IN  [node |-> s, again |-> ~IsPanic(s)]

\* Mutant of AddToLeaf: the room test is <= where the code has <.
AddToLeaf_OffByOne(node, contact, bit_index, local_id, k) ==
    LET contacts == node.contacts
        index == index_of(contacts, contact.id)
    IN  IF index # 0
        THEN [node |-> Leaf(update(contacts, index, contact), node.dont_split),
              again |-> FALSE]
        ELSE IF Len(contacts) <= k
        THEN [node |-> Leaf(Append(contacts, contact), node.dont_split),
              again |-> FALSE]
        ELSE IF node.dont_split
        THEN [node |-> node, again |-> FALSE]
        ELSE LET s == split(local_id, contacts, bit_index)
             IN  [node |-> s, again |-> ~IsPanic(s)]

\* Mutant of AddToLeaf: a full frozen leaf drops its oldest contact to take
\* the new one.
AddToLeaf_EvictOldest(node, contact, bit_index, local_id, k) ==
    LET contacts == node.contacts
        index == index_of(contacts, contact.id)
    IN  IF index # 0
        THEN [node |-> Leaf(update(contacts, index, contact), node.dont_split),
              again |-> FALSE]
        ELSE IF Len(contacts) < k
        THEN [node |-> Leaf(Append(contacts, contact), node.dont_split),
              again |-> FALSE]
        ELSE IF node.dont_split
        THEN [node |-> Leaf(Append(Tail(contacts), contact), node.dont_split),
              again |-> FALSE]
        ELSE LET s == split(local_id, contacts, bit_index)
             IN  [node |-> s, again |-> ~IsPanic(s)]

\* The body of add once the walk has reached the leaf node at bit_index.
AddToLeaf(node, contact, bit_index, local_id, k) ==
    LET contacts == node.contacts
        index == index_of(contacts, contact.id)
    IN  IF index # 0
        THEN [node |-> Leaf(update(contacts, index, contact), node.dont_split),
              again |-> FALSE]
        ELSE IF Len(contacts) < k
        THEN [node |-> Leaf(Append(contacts, contact), node.dont_split),
              again |-> FALSE]
        ELSE IF node.dont_split
        THEN [node |-> node, again |-> FALSE]
        ELSE LET s == split(local_id, contacts, bit_index)
             IN  [node |-> s, again |-> ~IsPanic(s)]

RECURSIVE AddWalk(_, _, _, _, _)
AddWalk(node, contact, bit_index, local_id, k) ==
    IF IsInner(node)
    THEN LET dir == determine_node(contact.id, bit_index)
         IN  IF dir = "Panic" THEN [node |-> Panic, again |-> FALSE]
             ELSE LET sub == AddWalk(IF dir = "Left" THEN node.left ELSE node.right,
                                     contact, bit_index + 1, local_id, k)
                  IN  IF IsPanic(sub.node) THEN sub
                      ELSE [node |-> IF dir = "Left"
                                     THEN Inner(sub.node, node.right)
                                     ELSE Inner(node.left, sub.node),
                            again |-> sub.again]
    ELSE AddToLeaf(node, contact, bit_index, local_id, k)

RECURSIVE add(_, _, _, _)
add(r, contact, local_id, k) ==
    LET pass == AddWalk(r, contact, 0, local_id, k)
    IN  IF pass.again THEN add(pass.node, contact, local_id, k) ELSE pass.node

\* Mutant of RemoveFromLeaf: Vec::swap_remove, which fills the hole with the
\* last contact, where the code has Vec::remove.
RemoveFromLeaf_SwapRemove(node, id) ==
    LET index == index_of(node.contacts, id)
        n == Len(node.contacts)
    IN  IF index # 0
        THEN Leaf([i \in 1..(n - 1) |->
                      IF i = index THEN node.contacts[n] ELSE node.contacts[i]],
                  node.dont_split)
        ELSE node

\* The body of remove once the walk has reached the leaf node.
RemoveFromLeaf(node, id) ==
    LET index == index_of(node.contacts, id)
    IN  IF index # 0
        THEN Leaf(RemoveAt(node.contacts, index), node.dont_split)
        ELSE node

RECURSIVE remove(_, _, _)
\* Mutant of remove: an Inner node whose two children are left empty leaves is
\* merged back into one leaf.
remove_Merging(node, id, bit_index) ==
    IF IsInner(node)
    THEN LET dir == determine_node(id, bit_index)
             sub == remove(IF dir = "Left" THEN node.left ELSE node.right,
                           id, bit_index + 1)
             res == IF dir = "Left" THEN Inner(sub, node.right)
                    ELSE Inner(node.left, sub)
         IN  IF /\ IsLeaf(res.left) /\ res.left.contacts = <<>>
                /\ IsLeaf(res.right) /\ res.right.contacts = <<>>
             THEN Leaf(<<>>, res.left.dont_split /\ res.right.dont_split)
             ELSE res
    ELSE RemoveFromLeaf(node, id)

\* Kbucket::remove
remove(node, id, bit_index) ==
    IF IsInner(node)
    THEN LET dir == determine_node(id, bit_index)
         IN  IF dir = "Panic" THEN Panic
             ELSE LET sub == remove(IF dir = "Left" THEN node.left ELSE node.right,
                                    id, bit_index + 1)
                  IN  IF IsPanic(sub) THEN Panic
                      ELSE IF dir = "Left" THEN Inner(sub, node.right)
                      ELSE Inner(node.left, sub)
    ELSE RemoveFromLeaf(node, id)

\* Mutant of get: the walk takes the right child on Left and the left on Right.
RECURSIVE get_Swapped(_, _, _)
get_Swapped(node, id, bit_index) ==
    IF IsInner(node)
    THEN LET dir == determine_node(id, bit_index)
         IN  IF dir = "Panic" THEN Panic
             ELSE get_Swapped(IF dir = "Left" THEN node.right ELSE node.left,
                              id, bit_index + 1)
    ELSE LET index == index_of(node.contacts, id)
         IN  IF index # 0 THEN Ok(Some(node.contacts[index])) ELSE Ok(None)

\* Kbucket::get: Ok(Some(contact)), Ok(None), or Panic.
RECURSIVE get(_, _, _)
get(node, id, bit_index) ==
    IF IsInner(node)
    THEN LET dir == determine_node(id, bit_index)
         IN  IF dir = "Panic" THEN Panic
             ELSE get(IF dir = "Left" THEN node.left ELSE node.right, id, bit_index + 1)
    ELSE LET index == index_of(node.contacts, id)
         IN  IF index # 0 THEN Ok(Some(node.contacts[index])) ELSE Ok(None)

\* Kbucket::len: nodes is the stack (its top is the last element).
RECURSIVE LenLoop(_, _)
LenLoop(nodes, count) ==
    IF nodes = <<>> THEN count
    ELSE LET node == nodes[Len(nodes)]
             rest == SubSeq(nodes, 1, Len(nodes) - 1)
         IN  IF IsInner(node)
             THEN LenLoop(rest \o <<node.left, node.right>>, count)
             ELSE LenLoop(rest, count + Len(node.contacts))

len(r) == LenLoop(<<r>>, 0)

\* Mutant of IterPush: the right child is pushed twice, the left one never.
IterPush_RightTwice(nodes, node) == nodes \o <<node.right, node.right>>

\* The two pushes of Iter::next at an Inner node (the stack's top is the last
\* element).
IterPush(nodes, node) == nodes \o <<node.left, node.right>>

\* Kbucket::iter
iter(r) == [nodes |-> <<r>>, contacts |-> None, i |-> 0]

\* The loop of Iter::next from the iterator's fields; item is what next
\* returns, the other fields are the iterator after the call.  i counts from
\* 0 as in the code, the sequence contacts.val from 1.
RECURSIVE IterLoop(_, _, _)
IterLoop(nodes, contacts, i) ==
    IF contacts.some /\ i < Len(contacts.val)
    THEN [nodes |-> nodes, contacts |-> contacts, i |-> i + 1,
          item |-> Some(contacts.val[i + 1])]
    ELSE LET i0 == IF contacts.some THEN 0 ELSE i
         IN  IF nodes = <<>>
             THEN [nodes |-> nodes, contacts |-> None, i |-> i0, item |-> None]
             ELSE LET node == nodes[Len(nodes)]
                      rest == SubSeq(nodes, 1, Len(nodes) - 1)
                  IN  IF IsInner(node)
                      THEN IterLoop(IterPush(rest, node), None, i0)
                      ELSE IterLoop(rest, Some(node.contacts), 0)

\* Iter::next
IterNext(it) == IterLoop(it.nodes, it.contacts, it.i)

\* Mutant of InsertByDistance: the comparator's arguments are swapped.
InsertByDistance_Reversed(sorted, c, id) ==
    LET later == { i \in 1..Len(sorted) :
                     UsizeLess(Distance(sorted[i], id), Distance(c, id)) }
        at == IF later = {} THEN Len(sorted) + 1
              ELSE CHOOSE i \in later : \A j \in later : i <= j
    IN  SubSeq(sorted, 1, at - 1) \o <<c>> \o SubSeq(sorted, at, Len(sorted))

\* The stable sort_by of closest: c goes before the first element that is
\* strictly farther from id than c is.
InsertByDistance(sorted, c, id) ==
    LET later == { i \in 1..Len(sorted) :
                     UsizeLess(Distance(c, id), Distance(sorted[i], id)) }
        at == IF later = {} THEN Len(sorted) + 1
              ELSE CHOOSE i \in later : \A j \in later : i <= j
    IN  SubSeq(sorted, 1, at - 1) \o <<c>> \o SubSeq(sorted, at, Len(sorted))

RECURSIVE SortByDistance(_, _)
SortByDistance(contacts, id) ==
    IF contacts = <<>> THEN <<>>
    ELSE InsertByDistance(
             SortByDistance(SubSeq(contacts, 1, Len(contacts) - 1), id),
             contacts[Len(contacts)], id)

\* Vec::truncate
Truncate(s, n) == SubSeq(s, 1, Min(n, Len(s)))

\* Mutant of PushChildren: the child away from the target goes on top.
PushChildren_FarFirst(nodes, node, dir) ==
    IF dir = "Left"
    THEN nodes \o <<node.left, node.right>>
    ELSE nodes \o <<node.right, node.left>>

\* The two pushes of closest at an Inner node: the child on the target's side
\* goes on top of the stack.
PushChildren(nodes, node, dir) ==
    IF dir = "Left"
    THEN nodes \o <<node.right, node.left>>
    ELSE nodes \o <<node.left, node.right>>

\* The gathering loop of Kbucket::closest: nodes is the stack (its top is the
\* last element), bit_index the single counter the loop keeps.
RECURSIVE ClosestLoop(_, _, _, _, _)
ClosestLoop(nodes, contacts, bit_index, id, n) ==
    IF nodes = <<>> THEN Ok(contacts)
    ELSE IF n.some /\ Len(contacts) >= n.val THEN Ok(contacts)
    ELSE LET node == nodes[Len(nodes)]
             rest == SubSeq(nodes, 1, Len(nodes) - 1)
         IN  IF IsInner(node)
             THEN LET dir == determine_node(id, bit_index)
                  IN  IF dir = "Panic" THEN Panic
                      ELSE ClosestLoop(PushChildren(rest, node, dir),
                                       contacts, bit_index + 1, id, n)
             ELSE ClosestLoop(rest, contacts \o node.contacts, bit_index, id, n)

\* The same loop, read for its counter: the Inner nodes it pops, in order, each
\* with the value bit_index has when determine_node is called for it.  count is
\* contacts.len(), all the loop condition reads of the gathered contacts.
RECURSIVE ClosestVisits(_, _, _, _, _)
ClosestVisits(nodes, count, bit_index, id, n) ==
    IF nodes = <<>> THEN <<>>
    ELSE IF n.some /\ count >= n.val THEN <<>>
    ELSE LET node == nodes[Len(nodes)]
             rest == SubSeq(nodes, 1, Len(nodes) - 1)
         IN  IF IsInner(node)
             THEN LET dir == determine_node(id, bit_index)
                  IN  <<[node |-> node, bit_index |-> bit_index]>> \o
                      (IF dir = "Panic" THEN <<>>
                       ELSE ClosestVisits(PushChildren(rest, node, dir),
                                          count, bit_index + 1, id, n))
             ELSE ClosestVisits(rest, count + Len(node.contacts), bit_index, id, n)

\* Kbucket::closest: Ok(the returned Vec), or Panic.
closest(r, id, n) ==
    LET gathered == ClosestLoop(<<r>>, <<>>, 0, id, n)
    IN  IF IsPanic(gathered) THEN Panic
        ELSE LET sorted == SortByDistance(gathered.val, id)
             IN  Ok(IF n.some THEN Truncate(sorted, n.val) ELSE sorted)

(***************************************************************************)
(* The state machine: Kbucket::new, then any sequence of calls.  last is   *)
(* the call made last (with what it returned), pre the trie it was made    *)
(* on.  A call that panics ends the run: panicked disables every action.   *)
(* recency lists the stored identities by the time of the add that         *)
(* inserted or refreshed them last, the oldest first.                      *)
(***************************************************************************)
\* The leaves of the trie under node, each with its bit path from node
\* (0 for left, 1 for right).
RECURSIVE LeavesAt(_, _)
LeavesAt(node, path) ==
    IF IsInner(node)
    THEN LeavesAt(node.left, Append(path, 0)) \cup LeavesAt(node.right, Append(path, 1))
    ELSE {[path |-> path, leaf |-> node]}

Leaves(r) == LeavesAt(r, <<>>)

\* The identities stored anywhere in the trie.
StoredIds(r) ==
    UNION { { l.leaf.contacts[i].id : i \in 1..Len(l.leaf.contacts) } : l \in Leaves(r) }

Without(ids, id) == SelectSeq(ids, LAMBDA x : x # id)

NoCall == [op |-> "new"]

\* The value of a variable that stands for something not constructed: the Dht
\* in the specifications of one Kbucket, the Kbucket in the one of the Dht.
Absent == [type |-> "Absent"]

\* Kbucket::new(node_id, Some(k), None)
Init ==
    /\ node_id \in LocalIds
    /\ nodes_per_kbucket \in 1..MaxK
    /\ nodes_to_ping = DefaultNodesToPing
    /\ root = Leaf(<<>>, FALSE)
    /\ panicked = FALSE
    /\ last = NoCall
    /\ pre = Leaf(<<>>, FALSE)
    /\ recency = <<>>
    /\ dht = Absent

Config == <<node_id, nodes_per_kbucket, nodes_to_ping>>

\* What k_bucket.add(contact) does to the table.
AddEffect(contact) ==
    /\ ~panicked
    /\ LET r == add(root, contact, node_id, nodes_per_kbucket)
       IN  /\ root' = IF IsPanic(r) THEN root ELSE r
           /\ panicked' = IsPanic(r)
    /\ UNCHANGED <<Config, dht>>

\* What k_bucket.remove(id) does to the table.
RemoveEffect(id) ==
    /\ ~panicked
    /\ LET r == remove(root, id, 0)
       IN  /\ root' = IF IsPanic(r) THEN root ELSE r
           /\ panicked' = IsPanic(r)
    /\ UNCHANGED <<Config, dht>>

(***************************************************************************)
(* Spec: the mutating calls, each recorded with the trie it was made on.   *)
(***************************************************************************)
\* The notifications k_bucket.add(contact) emits while it runs on the trie r.
\* The code emits none: in every branch of add and update the emit is a
\* comment only ('added', 'ping', 'updated'), and nodes_to_ping is never read.
AddEmits(r, contact, local_id, k, ping_count) == <<>>

Add(contact) ==
    /\ AddEffect(contact)
    /\ last' = [op |-> "add", contact |-> contact,
                emitted |-> AddEmits(root, contact, node_id, nodes_per_kbucket,
                                     nodes_to_ping)]
    /\ pre' = root
    /\ recency' = IF contact.id \in StoredIds(root')
                  THEN Append(Without(recency, contact.id), contact.id)
                  ELSE recency

Remove(id) ==
    /\ RemoveEffect(id)
    /\ last' = [op |-> "remove", id |-> id]
    /\ pre' = root
    /\ recency' = Without(recency, id)

Next ==
    \/ \E contact \in Contacts : Add(contact)
    \/ \E id \in Ids : Remove(id)

Spec == Init /\ [][Next]_vars

(***************************************************************************)
(* SpecQuery: the same table under the same mutating calls, here not       *)
(* recorded, and the read-only calls, recorded in last with their result.  *)
(* A query leaves the table as it is, so a query made right after another  *)
(* sees what the first saw: queries are taken from the states the mutating *)
(* calls leave, which covers every table with every query.                 *)
(***************************************************************************)
IsQuery(call) == call.op \in {"get", "len", "closest"}

\* A mutating call, not recorded, with a contact of contacts or an id of ids.
MutateWith(contacts, ids) ==
    /\ \/ \E contact \in contacts : AddEffect(contact)
       \/ \E id \in ids : RemoveEffect(id)
    /\ last' = NoCall
    /\ UNCHANGED <<pre, recency>>

Mutate == MutateWith(Contacts, Ids)

Get(id) ==
    /\ ~panicked
    /\ ~IsQuery(last)
    /\ LET r == get(root, id, 0)
       IN  /\ last' = [op |-> "get", id |-> id, ret |-> r]
           /\ panicked' = IsPanic(r)
    /\ UNCHANGED <<root, pre, recency, Config, dht>>

LenCall ==
    /\ ~panicked
    /\ ~IsQuery(last)
    /\ last' = [op |-> "len", ret |-> Ok(len(root))]
    /\ UNCHANGED <<root, pre, recency, panicked, Config, dht>>

Closest(id, n) ==
    /\ ~panicked
    /\ ~IsQuery(last)
    /\ LET r == closest(root, id, n)
       IN  /\ last' = [op |-> "closest", id |-> id, n |-> n, ret |-> r]
           /\ panicked' = IsPanic(r)
    /\ UNCHANGED <<root, pre, recency, Config, dht>>

NextQuery ==
    \/ Mutate
    \/ \E id \in Ids : Get(id)
    \/ LenCall
    \/ \E id \in Ids : \E n \in 0..MaxN : Closest(id, Some(n))

SpecQuery == Init /\ [][NextQuery]_vars

(***************************************************************************)
(* SpecIter: the table under the mutating calls, not recorded, and an      *)
(* iterator over it: iter(), then next() call after call, two more once    *)
(* next has returned none.  last holds the iterator, the contacts it has   *)
(* yielded so far, and how often next has returned none.  The iterator     *)
(* borrows the table, so no mutating call is made while it lives.          *)
(***************************************************************************)
IterCall ==
    /\ ~panicked
    /\ last = NoCall
    /\ last' = [op |-> "iter", it |-> iter(root), yielded |-> <<>>, nones |-> 0]
    /\ UNCHANGED <<root, pre, recency, panicked, Config, dht>>

IterNextCall ==
    /\ last.op = "iter"
    /\ last.nones < 2
    /\ LET r == IterNext(last.it)
       IN  last' = [op |-> "iter",
                    it |-> [nodes |-> r.nodes, contacts |-> r.contacts, i |-> r.i],
                    yielded |-> IF r.item.some
                                THEN Append(last.yielded, r.item.val)
                                ELSE last.yielded,
                    nones |-> IF r.item.some THEN last.nones ELSE last.nones + 1]
    /\ UNCHANGED <<root, pre, recency, panicked, Config, dht>>

NextIter ==
    \/ last.op # "iter" /\ Mutate
    \/ IterCall
    \/ IterNextCall

SpecIter == Init /\ [][NextIter]_vars

(***************************************************************************)
(* SpecDistance: xor_distance applied to two byte sequences, of equal or   *)
(* of different lengths, some longer than a usize has bytes.               *)
(***************************************************************************)
DistanceBytes == {0, 1, 128, 255}

RECURSIVE BytesOfLen(_)
BytesOfLen(n) ==
    IF n = 0 THEN { <<>> }
    ELSE { Append(s, b) : s \in BytesOfLen(n - 1), b \in DistanceBytes }

\* Identifiers of UsizeBytes + 1 bytes: the fold wraps on these.
LongIds ==
    { [i \in 1..(UsizeBytes + 1) |-> IF i = 1 THEN b ELSE IF i = UsizeBytes + 1 THEN c ELSE 0] :
        b \in {0, 1}, c \in {0, 255} }

DistanceIds == UNION { BytesOfLen(n) : n \in 0..MaxIdLen } \cup LongIds

\* xor_distance is a free function: no table is constructed for it.
InitDistance ==
    /\ node_id = Absent
    /\ nodes_per_kbucket = Absent
    /\ nodes_to_ping = Absent
    /\ root = Absent
    /\ panicked = FALSE
    /\ last = NoCall
    /\ pre = Absent
    /\ recency = <<>>
    /\ dht = Absent

XorDistance(first_id, second_id) ==
    /\ last.op # "xor_distance"
    /\ last' = [op |-> "xor_distance", first_id |-> first_id,
                second_id |-> second_id,
                ret |-> xor_distance(first_id, second_id)]
    /\ UNCHANGED <<root, pre, recency, panicked, Config, dht>>

NextDistance == \E a, b \in DistanceIds : XorDistance(a, b)

SpecDistance == InitDistance /\ [][NextDistance]_vars

(***************************************************************************)
(* SpecByte: a table of one-byte identifiers built with any capacity,      *)
(* Kbucket::new(node_id, Some(k), None) with k from 0, under every call.   *)
(***************************************************************************)
InitByte ==
    /\ node_id \in ByteLocalIds
    /\ nodes_per_kbucket \in 0..MaxK
    /\ nodes_to_ping = DefaultNodesToPing
    /\ root = Leaf(<<>>, FALSE)
    /\ panicked = FALSE
    /\ last = NoCall
    /\ pre = Leaf(<<>>, FALSE)
    /\ recency = <<>>
    /\ dht = Absent

NextByte ==
    \/ MutateWith(ByteContacts, ByteIds)
    \/ \E id \in ByteIds : Get(id)
    \/ LenCall
    \/ \E id \in ByteIds : \E n \in 0..MaxN : Closest(id, Some(n))

SpecByte == InitByte /\ [][NextByte]_vars

(***************************************************************************)
(* SpecAnyLen: the table of Spec, whose local id has two bytes, under add, *)
(* remove and get calls whose identifiers may be shorter than that.        *)
(***************************************************************************)
NextAnyLen ==
    \/ MutateWith(Contacts \cup ShortContacts, Ids \cup ShortIds)
    \/ \E id \in Ids \cup ShortIds : Get(id)

SpecAnyLen == Init /\ [][NextAnyLen]_vars

(***************************************************************************)
(* SpecVersioned: the table of SpecByte holding contacts of the versioned   *)
(* type, so that should_replace answers yes to some candidates and no to   *)
(* others.                                                                 *)
(***************************************************************************)
\* The version numbers tried: an older and a newer one.
Seqs == {0, 1}
VersionedContacts == [id : ByteIds, token : {0}, seq : Seqs]

NextVersioned ==
    \/ \E contact \in VersionedContacts : Add(contact)
    \/ \E id \in ByteIds : Remove(id)

SpecVersioned == InitByte /\ [][NextVersioned]_vars

(***************************************************************************)
(* The Dht of lib.rs: Dht::new builds the Actor (Tables, Values, Secrets)  *)
(* and spawns its task; the task's loop takes a message when one is in the *)
(* channel and otherwise rotates the secrets on a tick of the interval;    *)
(* Dht::shutdown sends Shutdown and awaits the task.                       *)
(***************************************************************************)
Err == [type |-> "Err"]
IsErr(r) == r.type = "Err"

\* max.try_into() to the NonZeroUsize that LruCache::new takes: 0 has no
\* NonZeroUsize, every other usize converts to itself.
TryIntoNonZero(max) == IF max = 0 THEN Err ELSE Ok(max)

\* Mutant of TablesNew: the cache is built without converting the capacity.
TablesNew_Unchecked(max_age, max) == Ok([cap |-> max, entries |-> <<>>])

\* Tables::new: the `?` returns the conversion's error; the cache starts
\* with no entry, that is, with no Kbucket.
TablesNew(max_age, max) ==
    LET cap == TryIntoNonZero(max)
    IN  IF IsErr(cap) THEN Err ELSE Ok([cap |-> cap.val, entries |-> <<>>])

\* Values::new
ValuesNew(max) ==
    LET cap == TryIntoNonZero(max)
    IN  IF IsErr(cap) THEN Err ELSE Ok([cap |-> cap.val, entries |-> <<>>])

\* What rng.fill_bytes may write into a secret.
RngValues == {0, 1}

\* Secrets::new
SecretsNew(a, b) == [a |-> a, b |-> b]

\* Secrets::rotate: swap a and b, then fill a afresh.
SecretsRotate(secrets, fresh) == [a |-> fresh, b |-> secrets.a]

\* Actor::new: the fields are built in the order they are written, and the
\* first `?` that meets an error returns it.  tables_new and values_new
\* record what the two constructors returned.
ActorNew(opts, a, b) ==
    LET tables == TablesNew("ROTATE_INTERVAL", opts.max_tables)
        values == ValuesNew(opts.max_values)
    IN  IF IsErr(tables)
        THEN [type |-> "Err", tables_new |-> "Err", values_new |-> "NotCalled"]
        ELSE IF IsErr(values)
        THEN [type |-> "Err", tables_new |-> "Ok", values_new |-> "Err"]
        ELSE [type |-> "Ok", tables_new |-> "Ok", values_new |-> "Ok",
              val |-> [tables |-> tables.val, values |-> values.val,
                       secrets |-> SecretsNew(a, b)]]

OptsSet == [max_tables : 0..MaxCap, max_values : 0..MaxCap]

\* Before Dht::new: no actor, no task, an empty channel.
InitDht ==
    /\ node_id = Absent
    /\ nodes_per_kbucket = Absent
    /\ nodes_to_ping = Absent
    /\ root = Absent
    /\ panicked = FALSE
    /\ last = NoCall
    /\ pre = Absent
    /\ recency = <<>>
    /\ dht = [caller |-> "start", opts |-> Absent, result |-> Absent,
              tables_new |-> "NotCalled", values_new |-> "NotCalled",
              actor |-> Absent, task |-> "none", chan |-> <<>>,
              pending |-> 0, ticks |-> 0, rotations |-> 0]

Kbuckets == <<node_id, nodes_per_kbucket, nodes_to_ping, root, panicked, last, pre, recency>>

\* Dht::new(opts, rng): a and b are what rng yields for the two secrets.
DhtNew(opts, a, b) ==
    /\ dht.caller = "start"
    /\ LET actor == ActorNew(opts, a, b)
       IN  dht' = [dht EXCEPT
                     !.opts = opts,
                     !.tables_new = actor.tables_new,
                     !.values_new = actor.values_new,
                     !.caller = IF IsErr(actor) THEN "err" ELSE "has_dht",
                     !.result = IF IsErr(actor) THEN Err ELSE Ok("Dht"),
                     !.actor = IF IsErr(actor) THEN Absent ELSE actor.val,
                     !.task = IF IsErr(actor) THEN "none" ELSE "running"]
    /\ UNCHANGED Kbuckets

\* ROTATE_INTERVAL has passed once more: the interval holds one more tick.
Tick ==
    /\ dht.task = "running"
    /\ dht.ticks < MaxTicks
    /\ dht' = [dht EXCEPT !.pending = @ + 1, !.ticks = @ + 1]
    /\ UNCHANGED Kbuckets

\* Mutant of HandleMessage: Shutdown is matched and the loop goes on.
HandleMessage_KeepRunning(msg) == "continue"

\* The match on the received message in Actor::run.
HandleMessage(msg) == IF msg = "Shutdown" THEN "break" ELSE "continue"

\* Actor::run, the first branch of the biased select: a message is there.
\* After the break the task ends and the receiver is dropped with it.
ActorRecv ==
    /\ dht.task = "running"
    /\ dht.chan # <<>>
    /\ dht' = IF HandleMessage(Head(dht.chan)) = "break"
              THEN [dht EXCEPT !.task = "exited", !.chan = <<>>]
              ELSE [dht EXCEPT !.chan = Tail(@)]
    /\ UNCHANGED Kbuckets

\* Actor::run, the second branch, polled only when no message is there: a
\* tick of the interval, on which the secrets rotate.
ActorRotate(fresh) ==
    /\ dht.task = "running"
    /\ dht.chan = <<>>
    /\ dht.pending > 0
    /\ dht' = [dht EXCEPT !.actor.secrets = SecretsRotate(@, fresh),
                          !.pending = @ - 1,
                          !.rotations = @ + 1]
    /\ UNCHANGED Kbuckets

\* Dht::shutdown up to its await of the task: the send, whose error (the
\* receiver gone) .ok() drops.
DhtShutdown ==
    /\ dht.caller = "has_dht"
    /\ dht' = [dht EXCEPT
                 !.chan = IF dht.task = "running" THEN Append(@, "Shutdown") ELSE @,
                 !.caller = "awaiting"]
    /\ UNCHANGED Kbuckets

\* Dht::shutdown from the task's end on: actor_handle.await yields Ok.
ShutdownJoin ==
    /\ dht.caller = "awaiting"
    /\ dht.task = "exited"
    /\ dht' = [dht EXCEPT !.caller = "done", !.result = Ok("unit")]
    /\ UNCHANGED Kbuckets

NextDht ==
    \/ \E opts \in OptsSet : \E a, b \in RngValues : DhtNew(opts, a, b)
    \/ Tick
    \/ ActorRecv
    \/ \E fresh \in RngValues : ActorRotate(fresh)
    \/ DhtShutdown
    \/ ShutdownJoin

\* The runtime keeps polling a spawned task that can go on, and the caller's
\* await resumes once the task has ended.
SpecDht ==
    /\ InitDht
    /\ [][NextDht]_vars
    /\ WF_vars(ActorRecv)
    /\ WF_vars(ShutdownJoin)

(***************************************************************************)
(* What the properties below read off a trie.                              *)
(***************************************************************************)
\* The bit of id that the walk examines at bit_index.
IdBit(id, bit_index) == IF determine_node(id, bit_index) = "Right" THEN 1 ELSE 0

\* path is a prefix of the bit path of id.
Routes(path, id) == \A i \in 1..Len(path) : path[i] = IdBit(id, i - 1)

\* The leaf of r, with its path, that the bit path of id leads to.
RoutedLeaf(r, id) == CHOOSE l \in Leaves(r) : Routes(l.path, id)

\* The bit paths of the Inner nodes under node.
RECURSIVE InnerPathsAt(_, _)
InnerPathsAt(node, path) ==
    IF IsInner(node)
    THEN {path} \cup InnerPathsAt(node.left, Append(path, 0))
                \cup InnerPathsAt(node.right, Append(path, 1))
    ELSE {}

InnerPaths(r) == InnerPathsAt(r, <<>>)
LeafPaths(r) == { l.path : l \in Leaves(r) }

\* Every contact of the trie, leaf after leaf.
RECURSIVE AllContacts(_)
AllContacts(node) ==
    IF IsInner(node) THEN AllContacts(node.left) \o AllContacts(node.right)
    ELSE node.contacts

Depth(r) == CHOOSE d \in { Len(l.path) : l \in Leaves(r) } :
                \A l \in Leaves(r) : Len(l.path) <= d

IdsOf(contacts) == [i \in 1..Len(contacts) |-> contacts[i].id]
Position(s, x) == CHOOSE i \in 1..Len(s) : s[i] = x
Occurrences(s, x) == Cardinality({ i \in 1..Len(s) : s[i] = x })

LastIsAdd == last.op = "add"
LastIsRemove == last.op = "remove"
LastIsClosest == last.op = "closest"

(***************************************************************************)
(* C1.  After every add and remove call, also one that split once or       *)
(* several times, every Leaf holds at most nodes_per_kbucket contacts.     *)
(***************************************************************************)
C1_LeafWithinCapacity ==
    \A l \in Leaves(root) : Len(l.leaf.contacts) <= nodes_per_kbucket

\* An add that split at least twice and left a full leaf behind.
C1_Witness ==
    /\ LastIsAdd
    /\ Depth(root) >= Depth(pre) + 2
    /\ last.contact.id \in StoredIds(root)
    /\ \E l \in Leaves(root) : Len(l.leaf.contacts) = nodes_per_kbucket

(***************************************************************************)
(* C2.  Freeze invariant: a Leaf has dont_split = false exactly when its   *)
(* bit path from the root is a prefix of the local identifier's bit path;  *)
(* every Leaf off that path has dont_split = true.                         *)
(***************************************************************************)
C2_FreezeInvariant ==
    \A l \in Leaves(root) : l.leaf.dont_split = ~Routes(l.path, node_id)

\* A trie split at least twice whose frozen leaves include a left child and a
\* right child: the local identifier's path turns both ways.
C2_Witness ==
    /\ Depth(root) >= 2
    /\ \E l \in Leaves(root) :
         l.leaf.dont_split /\ l.path[Len(l.path)] = 0 /\ l.leaf.contacts # <<>>
    /\ \E l \in Leaves(root) : l.leaf.dont_split /\ l.path[Len(l.path)] = 1

(***************************************************************************)
(* C3.  closest(target, Some(n)) returns at most n contacts in ascending   *)
(* order of distance(contact.id, target); when the table holds fewer than  *)
(* n contacts it returns every contact of the table exactly once.          *)
(***************************************************************************)
Ascending(contacts, id) ==
    \A i, j \in 1..Len(contacts) :
        i < j => ~UsizeLess(Distance(contacts[j], id), Distance(contacts[i], id))

C3_ClosestBound ==
    LastIsClosest =>
        /\ last.ret.type = "Ok"
        /\ Len(last.ret.val) <= last.n.val
        /\ Ascending(last.ret.val, last.id)
        /\ Len(AllContacts(root)) < last.n.val =>
             /\ Len(last.ret.val) = Len(AllContacts(root))
             /\ \A i \in 1..Len(AllContacts(root)) :
                  Occurrences(last.ret.val, AllContacts(root)[i]) = 1

\* A split table with fewer than n contacts, returned in an order that is not
\* the order the leaves were gathered in.
C3_Witness ==
    /\ LastIsClosest
    /\ IsInner(root)
    /\ Len(AllContacts(root)) < last.n.val
    /\ Len(last.ret.val) >= 2
    /\ last.ret.val # ClosestLoop(<<root>>, <<>>, 0, last.id, last.n).val

(***************************************************************************)
(* C4.  For identifiers of one length that fit the accumulator,            *)
(* closest(target, Some(n)) returns exactly the n contacts of the whole    *)
(* table nearest to target under the XOR metric (all of them if fewer), in *)
(* ascending order, also on split tables; a contact whose id is target     *)
(* comes first when n >= 1.  Stopping the traversal at n gathered          *)
(* candidates omits no contact nearer than one returned.                   *)
(***************************************************************************)
\* The XOR metric: the big-endian value of the byte-wise XOR.
RECURSIVE XorMetricFrom(_, _, _)
XorMetricFrom(a, b, i) ==
    IF i > Len(a) THEN 0
    ELSE ByteXor(a[i], b[i]) * (256 ^ (Len(a) - i)) + XorMetricFrom(a, b, i + 1)

XorMetric(a, b) == XorMetricFrom(a, b, 1)

C4_ClosestNearest ==
    LastIsClosest =>
        LET ret == last.ret.val
            all == AllContacts(root)
            target == last.id
        IN  /\ last.ret.type = "Ok"
            /\ Len(ret) = Min(last.n.val, Len(all))
            /\ \A i \in 1..Len(ret) : Occurrences(all, ret[i]) = 1
            /\ \A i, j \in 1..Len(ret) :
                 i < j => XorMetric(ret[i].id, target) < XorMetric(ret[j].id, target)
            /\ \A i \in 1..Len(all) :
                 Occurrences(ret, all[i]) = 0 =>
                    \A j \in 1..Len(ret) :
                        XorMetric(ret[j].id, target) < XorMetric(all[i].id, target)
            /\ (last.n.val >= 1 /\ target \in StoredIds(root)) => ret[1].id = target

\* The traversal stopped before it had seen every leaf, for a target off the
\* local identifier's path, and left out a stored contact.
C4_Witness ==
    /\ LastIsClosest
    /\ last.n.val >= 2
    /\ Depth(root) >= 2
    /\ ~Routes(RoutedLeaf(root, last.id).path, node_id)
    /\ Len(ClosestLoop(<<root>>, <<>>, 0, last.id, last.n).val) < Len(AllContacts(root))
    /\ Len(last.ret.val) = last.n.val

(***************************************************************************)
(* C5.  Idempotent refresh: add(c) with c's identity already stored leaves *)
(* len() unchanged, splits nothing, and the table still holds exactly one  *)
(* contact with that identity.                                             *)
(***************************************************************************)
C5_RefreshIdempotent ==
    (LastIsAdd /\ last.contact.id \in StoredIds(pre)) =>
        /\ len(root) = len(pre)
        /\ LeafPaths(root) = LeafPaths(pre)
        /\ Occurrences(IdsOf(AllContacts(root)), last.contact.id) = 1

\* The refreshed identity sat in a full leaf that add could have split, and
\* the candidate differs from the stored contact.
C5_Witness ==
    /\ LastIsAdd
    /\ last.contact.id \in StoredIds(pre)
    /\ LET l == RoutedLeaf(pre, last.contact.id)
       IN  /\ Len(l.leaf.contacts) = nodes_per_kbucket
           /\ ~l.leaf.dont_split
           /\ last.contact \notin { l.leaf.contacts[i] : i \in 1..Len(l.leaf.contacts) }
    /\ nodes_per_kbucket >= 2

(***************************************************************************)
(* C6.  Recency order under the default replacement policy: the contacts   *)
(* of every Leaf are in the order of their last add (insert or refresh),   *)
(* the oldest at the head; an add of a stored identity moves it to the     *)
(* tail of its leaf and keeps the relative order of the others; a split    *)
(* keeps the relative order of the contacts it redistributes.              *)
(***************************************************************************)
\* x stands before y in one leaf of r.
Before(r, x, y) ==
    \E l \in Leaves(r) :
        \E i, j \in 1..Len(l.leaf.contacts) :
            i < j /\ l.leaf.contacts[i].id = x /\ l.leaf.contacts[j].id = y

C6_RecencyOrder ==
    /\ \A l \in Leaves(root) :
         \A i, j \in 1..Len(l.leaf.contacts) :
            i < j =>
               /\ Occurrences(recency, l.leaf.contacts[i].id) = 1
               /\ Occurrences(recency, l.leaf.contacts[j].id) = 1
               /\ Position(recency, l.leaf.contacts[i].id)
                    < Position(recency, l.leaf.contacts[j].id)
    /\ (LastIsAdd /\ last.contact.id \in StoredIds(root)) =>
         LET cs == RoutedLeaf(root, last.contact.id).leaf.contacts
         IN  cs[Len(cs)] = last.contact
    /\ LastIsAdd =>
         \A x, y \in StoredIds(pre) \ {last.contact.id} :
            (Before(pre, x, y) /\ RoutedLeaf(root, x) = RoutedLeaf(root, y))
               => Before(root, x, y)

\* A refresh of a contact that stood at the head of a leaf of two, in a trie
\* whose last split put two contacts into one new leaf.
C6_Witness ==
    /\ LastIsAdd
    /\ IsInner(root)
    /\ last.contact.id \in StoredIds(pre)
    /\ LET l == RoutedLeaf(pre, last.contact.id)
       IN  /\ Len(l.leaf.contacts) >= 2
           /\ l.leaf.contacts[1].id = last.contact.id
           /\ l.leaf.contacts[1] # last.contact

(***************************************************************************)
(* C7.  From a fresh Kbucket of capacity k, adding m <= k distinct         *)
(* identities keeps the root a single Leaf holding exactly those contacts  *)
(* with dont_split = false; the add of the (k+1)-th distinct identity      *)
(* turns the root into an Inner node.                                      *)
(***************************************************************************)
C7_RootLeafUntilFull ==
    /\ IsLeaf(root) =>
         /\ ~root.dont_split
         /\ Len(root.contacts) <= nodes_per_kbucket
         /\ IdsOf(root.contacts) = recency
    /\ (LastIsAdd /\ IsLeaf(pre) /\ last.contact.id \notin StoredIds(pre)) =>
         IF Len(pre.contacts) < nodes_per_kbucket
         THEN root = Leaf(Append(pre.contacts, last.contact), FALSE)
         ELSE IsInner(root)

\* The add of the (k+1)-th distinct identity to a root Leaf, with k = 2.
C7_Witness ==
    /\ LastIsAdd
    /\ IsLeaf(pre)
    /\ nodes_per_kbucket = 2
    /\ Len(pre.contacts) = nodes_per_kbucket
    /\ last.contact.id \notin StoredIds(pre)
    /\ IsInner(root)

(***************************************************************************)
(* C8.  remove(id) decreases len() by exactly 1 when the identity is       *)
(* stored and removes exactly that contact; otherwise it changes nothing.  *)
(* Every other contact keeps its leaf and its place among the rest.        *)
(***************************************************************************)
C8_RemoveFrame ==
    LastIsRemove =>
        /\ LeafPaths(root) = LeafPaths(pre)
        /\ \A l \in Leaves(pre) :
             \E m \in Leaves(root) :
                /\ m.path = l.path
                /\ m.leaf.dont_split = l.leaf.dont_split
                /\ m.leaf.contacts =
                     SelectSeq(l.leaf.contacts, LAMBDA c : c.id # last.id)
        /\ IF last.id \in StoredIds(pre)
           THEN len(root) = len(pre) - 1
           ELSE root = pre

\* The first of two contacts of a leaf of a split trie was removed.
C8_Witness ==
    /\ LastIsRemove
    /\ IsInner(pre)
    /\ last.id \in StoredIds(pre)
    /\ LET l == RoutedLeaf(pre, last.id)
       IN  Len(l.leaf.contacts) >= 2 /\ l.leaf.contacts[1].id = last.id

(***************************************************************************)
(* C9.  The trie never merges or shrinks: a node that is Inner stays Inner *)
(* over every later call, the dont_split flag of an existing Leaf never    *)
(* changes, also once removes have emptied both children of an Inner node. *)
(***************************************************************************)
C9_NeverShrinks ==
    /\ InnerPaths(pre) \subseteq InnerPaths(root)
    /\ \A l \in Leaves(pre) :
         \A m \in Leaves(root) :
            m.path = l.path => m.leaf.dont_split = l.leaf.dont_split

\* A remove has just emptied the second of the two child leaves of an Inner
\* node.
C9_Witness ==
    /\ LastIsRemove
    /\ last.id \in StoredIds(pre)
    /\ \E p \in InnerPaths(root) :
         /\ [path |-> Append(p, 0), leaf |-> Leaf(<<>>, TRUE)] \in Leaves(root)
              \/ [path |-> Append(p, 0), leaf |-> Leaf(<<>>, FALSE)] \in Leaves(root)
         /\ [path |-> Append(p, 1), leaf |-> Leaf(<<>>, TRUE)] \in Leaves(root)
              \/ [path |-> Append(p, 1), leaf |-> Leaf(<<>>, FALSE)] \in Leaves(root)
         /\ Routes(Append(p, 0), last.id) \/ Routes(Append(p, 1), last.id)

(***************************************************************************)
(* C10.  add(c) of an identity not stored, routed to a Leaf that is full   *)
(* and has dont_split = true, inserts nothing and leaves the whole table   *)
(* as it was: the trie, every leaf's contacts and their order, len().      *)
(***************************************************************************)
FullAndFrozen(r, id) ==
    LET l == RoutedLeaf(r, id)
    IN  Len(l.leaf.contacts) = nodes_per_kbucket /\ l.leaf.dont_split

C10_RejectedAddFrame ==
    (LastIsAdd /\ last.contact.id \notin StoredIds(pre)
               /\ FullAndFrozen(pre, last.contact.id)) =>
        /\ root = pre
        /\ len(root) = len(pre)
        /\ last.contact.id \notin StoredIds(root)

\* Such an add was made on a table whose other leaves hold contacts too.
C10_Witness ==
    /\ LastIsAdd
    /\ last.contact.id \notin StoredIds(pre)
    /\ FullAndFrozen(pre, last.contact.id)
    /\ nodes_per_kbucket = 2
    /\ \E l \in Leaves(pre) : ~l.leaf.dont_split /\ l.leaf.contacts # <<>>

(***************************************************************************)
(* C11.  When add(c) is rejected because c's Leaf is full and frozen, the  *)
(* Kbucket emits a ping-requested notification carrying the oldest         *)
(* nodes_to_ping contacts of that leaf (its first entries) and the pending *)
(* candidate c, so that the caller can see that c was not inserted.        *)
(***************************************************************************)
PingRequested(leaf, contact) ==
    [kind |-> "ping",
     candidates |-> SubSeq(leaf.contacts, 1, Min(nodes_to_ping, Len(leaf.contacts))),
     pending |-> contact]

C11_PingRequested ==
    (LastIsAdd /\ last.contact.id \notin StoredIds(pre)
               /\ FullAndFrozen(pre, last.contact.id)) =>
        last.emitted =
            <<PingRequested(RoutedLeaf(pre, last.contact.id).leaf, last.contact)>>

(***************************************************************************)
(* C12.  For every Kbucket that Kbucket::new returns, whatever local id,   *)
(* nodes_per_kbucket and nodes_to_ping it was given, every add, remove,    *)
(* get, closest and len call with ids of the local id's length runs to     *)
(* completion and returns normally: no call ends in a panic.               *)
(***************************************************************************)
C12_EveryCallReturns == ~panicked

(***************************************************************************)
(* C13.  Every identifier, of any length, maps to exactly one Leaf: the    *)
(* walk by determine_node that add, get and remove make is defined at      *)
(* every Inner node it meets, and an identifier too short to contain the   *)
(* examined bit is routed to the left child.                               *)
(***************************************************************************)
\* The bit of id at bit_index, a missing bit counting as 0.
PaddedBit(id, bit_index) ==
    IF bit_index \div 8 < Len(id)
    THEN (id[(bit_index \div 8) + 1] \div Shl1[7 - (bit_index % 8)]) % 2
    ELSE 0

\* The one leaf of r that the bit path of id, padded with zeros, leads to.
PaddedLeaf(r, id) ==
    CHOOSE l \in Leaves(r) : \A i \in 1..Len(l.path) : l.path[i] = PaddedBit(id, i - 1)

C13_EveryIdRouted ==
    /\ ~panicked
    /\ last.op = "get" =>
         /\ last.ret.type = "Ok"
         /\ LET cs == PaddedLeaf(root, last.id).leaf.contacts
            IN  IF \E i \in 1..Len(cs) : cs[i].id = last.id
                THEN last.ret.val.some /\ last.ret.val.val.id = last.id
                ELSE ~last.ret.val.some

(***************************************************************************)
(* C14.  The default distance is symmetric and zero on equal inputs: for   *)
(* all identifiers a and b, xor_distance(a, b) = xor_distance(b, a), and   *)
(* xor_distance(a, a) = 0.                                                 *)
(***************************************************************************)
C14_DistanceSymmetric ==
    last.op = "xor_distance" =>
        /\ last.ret = xor_distance(last.second_id, last.first_id)
        /\ last.first_id = last.second_id => last.ret = UsizeZero

\* Two identifiers of different lengths, and so at a distance that is not 0.
C14_Witness ==
    /\ last.op = "xor_distance"
    /\ Len(last.first_id) < Len(last.second_id)
    /\ Len(last.first_id) >= 1
    /\ last.first_id[1] # last.second_id[1]
    /\ last.ret # UsizeZero

(***************************************************************************)
(* C15.  In every reachable state get(id) returns the stored contact whose *)
(* identity equals id exactly, and none if and only if no contact with     *)
(* that identity is stored anywhere in the trie; so it returns the contact *)
(* after an add that inserted or refreshed it, and none after remove(id).  *)
(***************************************************************************)
LastIsGet == last.op = "get"

C15_GetExact ==
    LastIsGet =>
        /\ last.ret.type = "Ok"
        /\ last.ret.val.some <=> last.id \in StoredIds(root)
        /\ last.ret.val.some =>
             /\ last.ret.val.val.id = last.id
             /\ Occurrences(AllContacts(root), last.ret.val.val) = 1

\* A get of an identity held in a frozen leaf two levels down, stored there
\* with its second token, in a table that holds other contacts too.
C15_Witness ==
    /\ LastIsGet
    /\ last.ret.val.some
    /\ last.ret.val.val.token = 1
    /\ LET l == RoutedLeaf(root, last.id)
       IN  Len(l.path) >= 2 /\ l.leaf.dont_split
    /\ Len(AllContacts(root)) >= 3

(***************************************************************************)
(* C16.  For every reachable table the iterator returned by iter()         *)
(* terminates after finitely many next() calls, yields every contact of    *)
(* every Leaf exactly once, the contacts of one Leaf in that Leaf's stored *)
(* order, keeps returning none once exhausted, and yields as many contacts *)
(* as len() counts.                                                        *)
(***************************************************************************)
LastIsIter == last.op = "iter"

C16_IterYieldsAll ==
    LastIsIter =>
        /\ Len(last.yielded) <= len(root)
        /\ \A i \in 1..Len(last.yielded) :
             Occurrences(last.yielded, last.yielded[i]) = 1
        /\ last.nones >= 1 =>
             /\ Len(last.yielded) = len(root)
             /\ \A l \in Leaves(root) :
                  SelectSeq(last.yielded,
                            LAMBDA c : \E i \in 1..Len(l.leaf.contacts) :
                                          l.leaf.contacts[i] = c)
                     = l.leaf.contacts

\* next has returned none twice after yielding the contacts of a trie two
\* levels deep with contacts in a left and in a right leaf, one leaf holding
\* two.
C16_Witness ==
    /\ LastIsIter
    /\ last.nones = 2
    /\ Depth(root) >= 2
    /\ Len(last.yielded) >= 3
    /\ \E l \in Leaves(root) : Len(l.leaf.contacts) >= 2
    /\ \E l \in Leaves(root) : l.leaf.contacts # <<>> /\ l.path[Len(l.path)] = 0
    /\ \E l \in Leaves(root) : l.leaf.contacts # <<>> /\ l.path[Len(l.path)] = 1

(***************************************************************************)
(* C17.  A zero capacity is rejected at construction: Tables::new(_, 0)    *)
(* and Values::new(0) return an error, and Dht::new with max_tables = 0 or *)
(* max_values = 0 returns that error to the caller before the actor task   *)
(* is spawned and before any Kbucket exists.                               *)
(***************************************************************************)
C17_ZeroCapacityRejected ==
    dht.caller # "start" =>
        /\ dht.opts.max_tables = 0 => dht.tables_new = "Err"
        /\ (dht.values_new # "NotCalled" /\ dht.opts.max_values = 0) =>
             dht.values_new = "Err"
        /\ (dht.opts.max_tables = 0 \/ dht.opts.max_values = 0) =>
             /\ dht.caller = "err"
             /\ IsErr(dht.result)
             /\ dht.task = "none"
             /\ dht.actor = Absent
             /\ root = Absent

\* Dht::new has returned the error of Values::new, the Tables having been
\* built before it.
C17_Witness ==
    /\ dht.caller = "err"
    /\ dht.tables_new = "Ok"
    /\ dht.values_new = "Err"
    /\ dht.opts.max_tables > 0

(***************************************************************************)
(* C18.  A Dht that was started and then shut down terminates: once        *)
(* Dht::shutdown has sent Shutdown, the actor loop receives it and exits,  *)
(* whatever number of rotation ticks are pending or fire in between, no    *)
(* rotation happens after the Shutdown message has been handled, and       *)
(* shutdown() returns Ok.                                                  *)
(***************************************************************************)
C18_ShutdownTerminates ==
    /\ (dht.caller = "awaiting") ~>
          (dht.caller = "done" /\ dht.task = "exited" /\ dht.result = Ok("unit"))
    /\ [][dht.task = "exited" => (dht'.actor = dht.actor /\ dht'.task = "exited")]_vars
    /\ [][dht.chan # <<>> => dht'.actor = dht.actor]_vars

\* shutdown has returned after a run in which the secrets were rotated and a
\* tick was still pending when Shutdown was handled.
C18_Witness ==
    /\ dht.caller = "done"
    /\ dht.rotations >= 1
    /\ dht.pending >= 1

(***************************************************************************)
(* C19.  With capacity k >= 1 and identifiers that all have the same       *)
(* length of L bytes, the depth of every Leaf is at most 8*L in every      *)
(* reachable state, the trie has at most 8*L + 1 Leaves, and no call of    *)
(* add, remove, get, closest or split evaluates determine_node with a bit  *)
(* index >= 8*L.  Every walk and the counter of closest go up one bit at a *)
(* time, and the evaluation at bit index 8*L is the out-of-range access,   *)
(* so such an evaluation shows as a panic.                                 *)
(***************************************************************************)
C19_DepthBounded ==
    nodes_per_kbucket >= 1 =>
        /\ ~panicked
        /\ Depth(root) <= 8 * Len(node_id)
        /\ Cardinality(Leaves(root)) <= 8 * Len(node_id) + 1

\* closest was called for a target whose leaf lies 8*L levels down, in a trie
\* of 8*L + 1 leaves.
C19_Witness ==
    /\ nodes_per_kbucket >= 1
    /\ LastIsClosest
    /\ last.n.val >= 1
    /\ Len(RoutedLeaf(root, last.id).path) = 8 * Len(node_id)
    /\ Cardinality(Leaves(root)) = 8 * Len(node_id) + 1

(***************************************************************************)
(* C20.  Routing and uniqueness: in every state reachable by add and       *)
(* remove, each stored contact sits in exactly the Leaf that the           *)
(* root-to-leaf walk for its own identity reaches, and no two stored       *)
(* contacts anywhere in the trie have the same identity; split keeps both. *)
(***************************************************************************)
C20_RoutedAndUnique ==
    /\ \A l \in Leaves(root) :
         \A i \in 1..Len(l.leaf.contacts) : Routes(l.path, l.leaf.contacts[i].id)
    /\ \A id \in StoredIds(root) :
         Occurrences(IdsOf(AllContacts(root)), id) = 1

\* An add has just split a leaf of two or more contacts, and the trie now
\* holds contacts in a left and in a right leaf, two of them in one leaf
\* below the root's children.
C20_Witness ==
    /\ LastIsAdd
    /\ Depth(root) > Depth(pre)
    /\ Len(AllContacts(pre)) >= 2
    /\ \E l \in Leaves(root) : Len(l.path) >= 2 /\ Len(l.leaf.contacts) >= 2
    /\ \E l \in Leaves(root) : l.leaf.contacts # <<>> /\ l.path[Len(l.path)] = 0
    /\ \E l \in Leaves(root) : l.leaf.contacts # <<>> /\ l.path[Len(l.path)] = 1

(***************************************************************************)
(* C21.  Shape invariant used by closest: exactly one Leaf has             *)
(* dont_split = false and every Inner node has at most one Inner child.    *)
(* Hence in closest the single counter bit_index, incremented each time an *)
(* Inner node is popped, equals the depth of that Inner node, for every    *)
(* target, also one whose path leaves the local identifier's path so that  *)
(* the traversal takes a leaf first and falls back to its Inner sibling.   *)
(***************************************************************************)
\* The node of the trie r at the end of the bit path path.
RECURSIVE NodeAt(_, _)
NodeAt(r, path) ==
    IF path = <<>> THEN r
    ELSE NodeAt(IF Head(path) = 0 THEN r.left ELSE r.right, Tail(path))

\* The depths at which node occurs in r as an Inner node.
InnerDepths(r, node) == { Len(p) : p \in { q \in InnerPaths(r) : NodeAt(r, q) = node } }

C21_ClosestCounterIsDepth ==
    /\ Cardinality({ l \in Leaves(root) : ~l.leaf.dont_split }) = 1
    /\ \A p \in InnerPaths(root) :
         ~(IsInner(NodeAt(root, p).left) /\ IsInner(NodeAt(root, p).right))
    /\ LastIsClosest =>
         LET visits == ClosestVisits(<<root>>, 0, 0, last.id, last.n)
         IN  \A i \in 1..Len(visits) :
                 InnerDepths(root, visits[i].node) = {visits[i].bit_index}

\* closest on a trie at least two levels deep, for a target that leaves the
\* local identifier's path at the root: the traversal takes the frozen leaf
\* first and then visits the Inner sibling and an Inner node below it.
C21_Witness ==
    /\ LastIsClosest
    /\ Depth(root) >= 3
    /\ IdBit(last.id, 0) # IdBit(node_id, 0)
    /\ Len(ClosestVisits(<<root>>, 0, 0, last.id, last.n)) >= 3

(***************************************************************************)
(* C22.  add(c) of an identity that is not stored never removes, replaces  *)
(* or reorders another stored contact and changes len() by +1 or 0.  It is *)
(* +1, c appended at the tail of its leaf, whenever the Leaf c routes to   *)
(* after all the splits of the call holds fewer than k other contacts; it  *)
(* is 0 exactly when that Leaf is full and frozen, also after the call has *)
(* split a full splittable leaf whose k contacts and c all fall on the     *)
(* side away from the local identifier.                                    *)
(***************************************************************************)
\* The leaf of r, with its path, whose path is a prefix of path.
LeafAbove(r, path) ==
    CHOOSE l \in Leaves(r) : /\ Len(l.path) <= Len(path)
                             /\ SubSeq(path, 1, Len(l.path)) = l.path

NewIdAdded == LastIsAdd /\ ~panicked /\ last.contact.id \notin StoredIds(pre)

C22_AddNewFrame ==
    NewIdAdded =>
        LET c == last.contact
            l == RoutedLeaf(root, c.id).leaf
            others == SelectSeq(l.contacts, LAMBDA x : x # c)
            stored == c.id \in StoredIds(root)
        IN  /\ \A m \in Leaves(root) :
                  SelectSeq(m.leaf.contacts, LAMBDA x : x # c) =
                  SelectSeq(LeafAbove(pre, m.path).leaf.contacts,
                            LAMBDA x : Routes(m.path, x.id))
            /\ len(root) - len(pre) = IF stored THEN 1 ELSE 0
            /\ Len(others) < nodes_per_kbucket =>
                  stored /\ l.contacts = Append(others, c)
            /\ ~stored <=> (Len(others) = nodes_per_kbucket /\ l.dont_split)

\* An add of a new identity that split the full root leaf, found the k contacts
\* and itself all on the frozen side, and stored nothing; the leaf held at
\* least two contacts, whose order the split had to keep.
C22_Witness ==
    /\ NewIdAdded
    /\ IsLeaf(pre)
    /\ IsInner(root)
    /\ nodes_per_kbucket >= 2
    /\ len(root) = len(pre)
    /\ RoutedLeaf(root, last.contact.id).leaf.contacts = pre.contacts

(***************************************************************************)
(* C23.  xor_distance(a, b) is the big-endian integer value of the         *)
(* byte-wise XOR of a and b, the missing trailing bytes of the shorter one *)
(* counted as 0xFF, reduced modulo 2^W, W the width of usize.  Hence for   *)
(* identifiers of one length of at most W/8 bytes the order of distances   *)
(* to a target is the order of the XOR metric and the distance is 0 only   *)
(* between equal identifiers, whereas for identifiers longer than W/8      *)
(* bytes the result depends only on the last W/8 bytes: two identifiers    *)
(* that differ only in their leading bytes are at distance 0.              *)
(***************************************************************************)
\* The byte-wise XOR of a and b, 0xFF where the shorter one has no byte.
PaddedXor(a, b) ==
    [i \in 1..Max(Len(a), Len(b)) |->
        IF i <= Min(Len(a), Len(b)) THEN ByteXor(a[i], b[i]) ELSE 255]

\* The big-endian value of bytes modulo 2^W as its W/8 base-256 digits: the
\* last W/8 bytes, with zeros in front of a shorter sequence.
ModUsize(bytes) ==
    [i \in 1..UsizeBytes |->
        LET j == Len(bytes) - UsizeBytes + i
        IN  IF j >= 1 THEN bytes[j] ELSE 0]

\* The big-endian value of bytes as a number.
RECURSIVE BigEndian(_)
BigEndian(bytes) ==
    IF bytes = <<>> THEN 0
    ELSE 256 * BigEndian(SubSeq(bytes, 1, Len(bytes) - 1)) + bytes[Len(bytes)]

\* The last n bytes of id.
LastBytes(id, n) == SubSeq(id, Len(id) - n + 1, Len(id))

C23_DistanceIsXorModUsize ==
    last.op = "xor_distance" =>
        LET a == last.first_id
            b == last.second_id
        IN  /\ last.ret = ModUsize(PaddedXor(a, b))
            /\ Max(Len(a), Len(b)) <= 3 =>
                  /\ \A i \in 1..(UsizeBytes - 3) : last.ret[i] = 0
                  /\ BigEndian(LastBytes(last.ret, 3)) = BigEndian(PaddedXor(a, b))
            /\ (Len(a) = Len(b) /\ Len(a) <= UsizeBytes) =>
                  /\ last.ret = UsizeZero => a = b
                  /\ \A c \in DistanceIds :
                        Len(c) = Len(a) =>
                           (UsizeLess(last.ret, xor_distance(c, b))
                              <=> XorMetric(a, b) < XorMetric(c, b))
            /\ (Len(a) = Len(b) /\ Len(a) > UsizeBytes) =>
                  /\ last.ret = xor_distance(LastBytes(a, UsizeBytes),
                                             LastBytes(b, UsizeBytes))
                  /\ LastBytes(a, UsizeBytes) = LastBytes(b, UsizeBytes) =>
                        last.ret = UsizeZero

\* Two identifiers of more than W/8 bytes that differ in their first byte only:
\* they are different and at distance 0.
C23_Witness ==
    /\ last.op = "xor_distance"
    /\ Len(last.first_id) > UsizeBytes
    /\ Len(last.second_id) = Len(last.first_id)
    /\ last.first_id # last.second_id
    /\ LastBytes(last.first_id, UsizeBytes) = LastBytes(last.second_id, UsizeBytes)
    /\ last.ret = UsizeZero

(***************************************************************************)
(* C24.  Replacement policy on add of an identity already present.  If the *)
(* incumbent's should_replace(candidate) is true, the incumbent is removed *)
(* and the candidate stored at the tail; if it is false and the candidate  *)
(* differs from the incumbent, the leaf is left completely unchanged, with *)
(* no refresh; if it is false and the candidate equals the incumbent, the  *)
(* incumbent itself is moved to the tail.  In all three cases the leaf     *)
(* keeps the same number of contacts.                                      *)
(***************************************************************************)
\* The contact of identity id in the leaf of r that id routes to.
Incumbent(r, id) ==
    LET contacts == RoutedLeaf(r, id).leaf.contacts
    IN  contacts[index_of(contacts, id)]

PresentIdAdded == LastIsAdd /\ ~panicked /\ last.contact.id \in StoredIds(pre)

\* The add was refused by the incumbent, which differs from the candidate.
Refused ==
    /\ PresentIdAdded
    /\ ~ShouldReplace(Incumbent(pre, last.contact.id), last.contact)
    /\ Incumbent(pre, last.contact.id) # last.contact

C24_ReplacementPolicy ==
    PresentIdAdded =>
        LET candidate == last.contact
            before == RoutedLeaf(pre, candidate.id)
            after == RoutedLeaf(root, candidate.id)
            incumbent == Incumbent(pre, candidate.id)
            others == SelectSeq(before.leaf.contacts, LAMBDA x : x # incumbent)
        IN  /\ after.path = before.path
            /\ Len(after.leaf.contacts) = Len(before.leaf.contacts)
            /\ ShouldReplace(incumbent, candidate) =>
                  after.leaf.contacts = Append(others, candidate)
            /\ Refused => after.leaf.contacts = before.leaf.contacts
            /\ (~ShouldReplace(incumbent, candidate) /\ candidate = incumbent) =>
                  after.leaf.contacts = Append(others, incumbent)

\* A refused candidate on a split table: the incumbent stands before another
\* contact of its leaf, where a refresh would have shown.
C24_Witness ==
    /\ Refused
    /\ IsInner(pre)
    /\ LET contacts == RoutedLeaf(pre, last.contact.id).leaf.contacts
       IN  index_of(contacts, last.contact.id) < Len(contacts)

====
